---------------------------- MODULE Spec2Model ----------------------------
(***************************************************************************)
(* A model of the formatter's core driver (format / check / the debug      *)
(* hooks, range formatting, shebang and line-ending handling) and of the   *)
(* path cursor (FastPath) that the translator walks the AST with.          *)
(*                                                                         *)
(* Texts are sequences of one-character strings; offsets are 0-based as    *)
(* in the source, so the character at offset i is text[i + 1].             *)
(***************************************************************************)
EXTENDS Integers, Sequences, FiniteSets, TLC

VARIABLES
  stack,      \* FastPath: this.stack
  frames,     \* FastPath: the activations of call/each/map whose callback runs
  err,        \* FastPath: an exception is propagating
  lastExit,   \* FastPath: the most recent exit of call/each/map (entry/exit stacks)
  text,       \* driver: the source text given to the entry point
  rawOpts,    \* driver: the option bag given to the entry point
  env,        \* driver: what the translator and the layout engine do on this input
  called,     \* driver: the entry point that was called ("none" before the call)
  ret,        \* driver: how the call ended, and what it returned or raised
  cli,        \* command line: the flags, process.exitCode, the files processed
  reads       \* FastPath: the calls of the read methods made on the cursor so far

pathVars == <<stack, frames, err, lastExit>>

driverVars == <<text, rawOpts, env, called, ret, cli, reads>>

vars == <<stack, frames, err, lastExit, text, rawOpts, env, called, ret, cli, reads>>

(***************************************************************************)
(* Bounds                                                                  *)
(***************************************************************************)
MaxDepth == 2      \* nesting depth of call/each/map activations
MaxNames == 2      \* property names given to one call/each/map
MaxBody == 2       \* characters of a text after its optional shebang line
MaxOffset == 2     \* largest rangeStart given; rangeEnd goes one further
MaxRangeLen == 4   \* characters of a text given to calculateRange alone
MaxComments == 2   \* comments of an input
MaxFiles == 2      \* files named on one command line

(***************************************************************************)
(* The object graph the cursor walks: a small AST.  A value is the name of *)
(* an object of the graph, or "undefined".                                 *)
(***************************************************************************)
Undefined == "undefined"

Heap ==
  [ prog     |-> [type |-> "Program", isArray |-> FALSE, length |-> 0,
                  props |-> ("body" :> "progBody")],
    progBody |-> [type |-> "", isArray |-> TRUE, length |-> 2,
                  props |-> ("0" :> "s0") @@ ("1" :> "s1")],
    s0       |-> [type |-> "ExpressionStatement", isArray |-> FALSE, length |-> 0,
                  props |-> ("expression" :> "e0")],
    e0       |-> [type |-> "Identifier", isArray |-> FALSE, length |-> 0,
                  props |-> <<>>],
    s1       |-> [type |-> "BlockStatement", isArray |-> FALSE, length |-> 0,
                  props |-> ("body" :> "s1Body")],
    s1Body   |-> [type |-> "", isArray |-> TRUE, length |-> 3,
                  props |-> ("0" :> "s2") @@ ("2" :> "s3")],
    s2       |-> [type |-> "EmptyStatement", isArray |-> FALSE, length |-> 0,
                  props |-> <<>>],
    s3       |-> [type |-> "DebuggerStatement", isArray |-> FALSE, length |-> 0,
                  props |-> <<>>] ]

Root == "prog"

\* The property names a caller passes to call/each/map.
Names == {"body", "expression", "0"}

ArgLists == UNION {[1..n -> Names] : n \in 0..MaxNames}

\* The property key of array index i (s.push(i, value[i]); value[i]).
IndexKey(i) == CASE i = 0 -> "0" [] i = 1 -> "1" [] i = 2 -> "2" [] OTHER -> "n"

\* value[name] on a defined value: the property, or undefined when absent.
Get(value, name) ==
  IF name \in DOMAIN Heap[value].props THEN Heap[value].props[name] ELSE Undefined

\* i in value
HasIndex(value, i) == IndexKey(i) \in DOMAIN Heap[value].props

\* value.length: a number for an array; undefined (-1 here) otherwise, which
\* makes `i < value.length` false.
LengthOf(value) == IF Heap[value].isArray THEN Heap[value].length ELSE -1

\* s.length = n
SetLength(s, n) ==
  IF n <= Len(s) THEN SubSeq(s, 1, n)
  ELSE s \o [i \in 1..(n - Len(s)) |-> Undefined]

\* s[s.length - 1]
Top(s) == s[Len(s)]

Null == "null"

\* getName(): the penultimate element, or null for the root.
getName(s) == IF Len(s) > 1 THEN s[Len(s) - 1] ELSE Null

\* getValue(): the final element.
getValue(s) == s[Len(s)]

(***************************************************************************)
(* FastPath.prototype.call / each / map                                    *)
(***************************************************************************)
\* The loop `value = value[name]; s.push(name, value)` over the names.  Reading
\* a property of undefined raises a TypeError with the earlier pushes done.
RECURSIVE PushNames(_, _, _)
PushNames(s, value, names) ==
  IF names = <<>> THEN [stack |-> s, value |-> value, threw |-> FALSE]
  ELSE IF value = Undefined THEN [stack |-> s, value |-> value, threw |-> TRUE]
  ELSE LET v == Get(value, Head(names))
       IN  PushNames(s \o <<Head(names), v>>, v, Tail(names))

\* The mutant of RestoreStack: the restoring assignment left out.
RestoreStackSkipped(s, origLen) == s

\* s.length = origLen, the last statement of call, each and map.
RestoreStack(s, origLen) == SetLength(s, origLen)

\* The mutant of PushIndex: the element pushed is always the first one.
PushIndexFirst(s, value, i) == s \o <<IndexKey(i), Get(value, IndexKey(0))>>

\* s.push(i, value[i]), the first statement of the loop body of each and map.
PushIndex(s, value, i) == s \o <<IndexKey(i), Get(value, IndexKey(i))>>

\* The indices of the array loop that are present, at or after `from`.
PresentFrom(value, from) ==
  {i \in from..(LengthOf(value) - 1) : HasIndex(value, i)}

Min(S) == CHOOSE x \in S : \A y \in S : x <= y

\* The array that map builds: new Array(value.length), entries assigned by
\* index.  For a value that is not an array value.length is undefined and
\* new Array(undefined) is the one-element array [undefined].
NewArray(value) ==
  IF Heap[value].isArray THEN [length |-> Heap[value].length, entries |-> <<>>]
  ELSE [length |-> 1, entries |-> ("0" :> Undefined)]

NoArray == [length |-> 0, entries |-> <<>>]

\* What a callback can return.
Results == {"docA", "docB"}

\* The mutant of StoreResult: the result is stored at the first index.
StoreResultFirst(result, i, r) ==
  [result EXCEPT !.entries = (IndexKey(0) :> r) @@ @]

\* result[i] = callback(this, i)
StoreResult(result, i, r) ==
  [result EXCEPT !.entries = (IndexKey(i) :> r) @@ @]

\* What the callback observes when it is invoked for index i.
Visit(i, s) == [i |-> i, name |-> getName(s), value |-> getValue(s)]

NoExit ==
  [op |-> "none", how |-> "none", entry |-> <<>>, exit |-> <<>>, value |-> Undefined,
   visited |-> <<>>, returned |-> <<>>, result |-> NoArray]

\* One activation of call, each or map: its locals (s is this.stack, origLen,
\* value, i, result), the invocations of its callback so far and what they
\* returned.
Frame(op, names, s, value, i) ==
  [op |-> op, origLen |-> Len(s), entry |-> s, names |-> names,
   value |-> value, i |-> i, visited |-> <<>>, returned |-> <<>>,
   result |-> IF op = "map" THEN NewArray(value) ELSE NoArray]

\* The exit of the activation f with the stack s.
Exit(f, how, s) ==
  [op |-> f.op, how |-> how, entry |-> f.entry, exit |-> s, value |-> f.value,
   visited |-> f.visited, returned |-> f.returned, result |-> f.result]

\* An operation raises a TypeError of its own before its callback runs (a
\* property of undefined is read): the exception leaves it.
OpThrows(op, p) ==
  /\ stack' = p.stack
  /\ err' = TRUE
  /\ frames' = frames
  /\ lastExit' = [NoExit EXCEPT !.op = op, !.how = "typeError", !.entry = stack,
                                !.exit = p.stack]

\* path.call(callback, names...): up to the invocation of the callback.
PathCall(names) ==
  /\ ~err
  /\ Len(frames) < MaxDepth
  /\ UNCHANGED driverVars
  /\ LET p == PushNames(stack, Top(stack), names)
     IN  IF p.threw THEN OpThrows("call", p)
         ELSE /\ stack' = p.stack
              /\ frames' = Append(frames, Frame("call", names, stack, p.value, 0))
              /\ UNCHANGED <<err, lastExit>>

\* The loop of each and map from index `from` on, for the activation f whose
\* stack is s: the callback is invoked for the next present index, or the
\* loop ends, the stack is restored and the operation returns.
LoopFrom(f, s, from, rest) ==
  LET present == PresentFrom(f.value, from)
  IN  IF present = {}
      THEN /\ stack' = RestoreStack(s, f.origLen)
           /\ frames' = rest
           /\ lastExit' = Exit(f, "return", stack')
           /\ err' = err
      ELSE LET i == Min(present)
           IN  /\ stack' = PushIndex(s, f.value, i)
               /\ frames' = Append(rest, [f EXCEPT !.i = i,
                                                   !.visited =
                                                     Append(@, Visit(i, stack'))])
               /\ UNCHANGED <<err, lastExit>>

\* path.each / path.map (callback, names...): up to the first invocation of
\* the callback, or to the end when the array has no element to visit.
PathIterate(op, names) ==
  /\ ~err
  /\ Len(frames) < MaxDepth
  /\ UNCHANGED driverVars
  /\ LET p == PushNames(stack, Top(stack), names)
     IN  IF p.threw \/ p.value = Undefined THEN OpThrows(op, [p EXCEPT !.threw = TRUE])
         ELSE LoopFrom(Frame(op, names, stack, p.value, 0), p.stack, 0, frames)

PathEach(names) == PathIterate("each", names)

PathMap(names) == PathIterate("map", names)

\* The running callback returns r to the operation that invoked it.
CallbackReturns(r) ==
  /\ ~err
  /\ frames # <<>>
  /\ UNCHANGED driverVars
  /\ LET f == frames[Len(frames)]
         rest == SubSeq(frames, 1, Len(frames) - 1)
         g == [f EXCEPT !.returned = Append(@, r)]
     IN  CASE f.op = "call" ->
                /\ stack' = RestoreStack(stack, f.origLen)
                /\ frames' = rest
                /\ lastExit' = Exit(g, "return", stack')
                /\ err' = err
           [] f.op = "each" ->
                LoopFrom(g, SetLength(stack, Len(stack) - 2), f.i + 1, rest)
           [] f.op = "map" ->
                LoopFrom([g EXCEPT !.result = StoreResult(@, f.i, r)],
                         SetLength(stack, Len(stack) - 2), f.i + 1, rest)

\* The running callback raises an error (the translator fails).
CallbackThrows ==
  /\ ~err
  /\ frames # <<>>
  /\ UNCHANGED driverVars
  /\ err' = TRUE
  /\ UNCHANGED <<stack, frames, lastExit>>

\* The exception leaves the innermost operation: call, each and map have no
\* handler, so nothing runs after the failed callback(this).
Unwind ==
  /\ err
  /\ frames # <<>>
  /\ UNCHANGED driverVars
  /\ LET f == frames[Len(frames)]
     IN  /\ frames' = SubSeq(frames, 1, Len(frames) - 1)
         /\ lastExit' = Exit(f, "throw", stack)
  /\ UNCHANGED <<stack, err>>


(***************************************************************************)
(* Strings: the String.prototype methods the driver uses                   *)
(***************************************************************************)
\* The value of Infinity, the default rangeEnd: above every offset used.
Infinity == 1000

Max2(a, b) == IF a >= b THEN a ELSE b

Min2(a, b) == IF a <= b THEN a ELSE b

\* /\s/ (and the complement of /\S/)
IsWhitespace(c) == c \in {" ", "\n", "\r", "\t"}

\* text.slice(from, to)
Slice(t, from, to) ==
  LET n == Len(t)
      a == IF from < 0 THEN Max2(n + from, 0) ELSE Min2(from, n)
      b == IF to < 0 THEN Max2(n + to, 0) ELSE Min2(to, n)
  IN  IF a >= b THEN <<>> ELSE SubSeq(t, a + 1, b)

\* text.indexOf(c): the first offset of c, or -1
IndexOf(t, c) ==
  LET hits == {i \in 0..(Len(t) - 1) : t[i + 1] = c}
  IN  IF hits = {} THEN -1 ELSE Min(hits)

\* text.lastIndexOf(c, from): the last offset of c at or before from, or -1
LastIndexOf(t, c, from) ==
  LET hits == {i \in 0..Min2(from, Len(t) - 1) : t[i + 1] = c}
  IN  IF hits = {} THEN -1 ELSE CHOOSE i \in hits : \A j \in hits : j <= i

\* text.charAt(i): the empty string outside the text
CharAt(t, i) == IF 0 <= i /\ i < Len(t) THEN t[i + 1] ELSE ""

\* text.search(/\S/): the first offset of a non-whitespace character, or -1
SearchNonWhitespace(t) ==
  LET hits == {i \in 0..(Len(t) - 1) : ~IsWhitespace(t[i + 1])}
  IN  IF hits = {} THEN -1 ELSE Min(hits)

\* text.trimRight()
RECURSIVE TrimRight(_)
TrimRight(t) ==
  IF t # <<>> /\ IsWhitespace(t[Len(t)]) THEN TrimRight(SubSeq(t, 1, Len(t) - 1))
  ELSE t

\* text.trim()
RECURSIVE TrimLeft(_)
TrimLeft(t) == IF t # <<>> /\ IsWhitespace(Head(t)) THEN TrimLeft(Tail(t)) ELSE t

Trim(t) == TrimLeft(TrimRight(t))

\* text.startsWith("#!")
StartsWithShebang(t) == Len(t) >= 2 /\ t[1] = "#" /\ t[2] = "!"

LF == <<"\n">>

CRLF == <<"\r", "\n">>

(***************************************************************************)
(* guessLineEnding                                                         *)
(***************************************************************************)
guessLineEnding(t) ==
  LET index == IndexOf(t, "\n")
  IN  IF index >= 0 /\ CharAt(t, index - 1) = "\r" THEN CRLF ELSE LF

(***************************************************************************)
(* The parser (external): a small statement language.  A run of "a" is an  *)
(* expression statement, "c" is a class declaration, "{" ... "}" is a      *)
(* block, whitespace separates, and anything else is a syntax error.  The  *)
(* Program node spans the whole text.                                      *)
(***************************************************************************)
Node(type, start, end, src, children) ==
  [type |-> type, start |-> start, end |-> end, src |-> src, children |-> children]

\* The offset after the run of "a" that starts at offset i.
RECURSIVE RunEnd(_, _)
RunEnd(t, i) == IF i < Len(t) /\ t[i + 1] = "a" THEN RunEnd(t, i + 1) ELSE i

ParseFailure == [ok |-> FALSE, body |-> <<>>, next |-> 0]

\* The statements from offset i on, to the end of the text or, inside a
\* block, to its closing brace.
RECURSIVE ParseStatements(_, _, _)
ParseStatements(t, i, inBlock) ==
  IF i >= Len(t) THEN [ok |-> ~inBlock, body |-> <<>>, next |-> i]
  ELSE LET c == t[i + 1]
       IN  CASE IsWhitespace(c) -> ParseStatements(t, i + 1, inBlock)
             [] c = "a" ->
                  LET e == RunEnd(t, i)
                      id == Node("Identifier", i, e, Slice(t, i, e), <<>>)
                      st == Node("ExpressionStatement", i, e, Slice(t, i, e), <<id>>)
                      r == ParseStatements(t, e, inBlock)
                  IN  IF r.ok THEN [r EXCEPT !.body = <<st>> \o @] ELSE ParseFailure
             [] c = "c" ->
                  LET st == Node("ClassDeclaration", i, i + 1, <<"c">>, <<>>)
                      r == ParseStatements(t, i + 1, inBlock)
                  IN  IF r.ok THEN [r EXCEPT !.body = <<st>> \o @] ELSE ParseFailure
             [] c = "{" ->
                  LET inner == ParseStatements(t, i + 1, TRUE)
                  IN  IF ~inner.ok THEN ParseFailure
                      ELSE LET st == Node("BlockStatement", i, inner.next,
                                          Slice(t, i, inner.next), inner.body)
                               r == ParseStatements(t, inner.next, inBlock)
                           IN  IF r.ok THEN [r EXCEPT !.body = <<st>> \o @]
                               ELSE ParseFailure
             [] c = "}" ->
                  IF inBlock THEN [ok |-> TRUE, body |-> <<>>, next |-> i + 1]
                  ELSE ParseFailure
             [] OTHER -> ParseFailure

\* parser.parse(text, opts): the AST, or a syntax error.
parse(t) ==
  LET r == ParseStatements(t, 0, FALSE)
  IN  [ok |-> r.ok, ast |-> Node("Program", 0, Len(t), t, r.body)]

\* util.locStart / util.locEnd
locStart(node) == node.start

locEnd(node) == node.end

\* comments.getSortedChildNodes(node): the child nodes in source order.
getSortedChildNodes(node) == node.children

(***************************************************************************)
(* The translator and the layout engine (external)                         *)
(***************************************************************************)
RECURSIVE Spaces(_)
Spaces(n) == IF n <= 0 THEN <<>> ELSE <<" ">> \o Spaces(n - 1)

\* The lines of a statement list: an expression statement or a class on a
\* line of its own, a block as "{", its statements indented, and "}".
RECURSIVE PrintLines(_, _)
PrintLines(nodes, indent) ==
  IF nodes = <<>> THEN <<>>
  ELSE LET n == Head(nodes)
           own == IF n.type = "BlockStatement"
                  THEN <<Spaces(indent) \o <<"{">> >>
                       \o PrintLines(n.children, indent + 2)
                       \o <<Spaces(indent) \o <<"}">> >>
                  ELSE <<Spaces(indent) \o n.src>>
       IN  own \o PrintLines(Tail(nodes), indent)

\* printAstToDoc(ast, opts, addAlignmentSize): the Doc, here the lines to
\* lay out and the alignment added to each.
printAstToDoc(ast, addAlignmentSize) ==
  [lines |-> PrintLines(ast.children, 0), align |-> addAlignmentSize]

\* printDocToString(doc, opts): every line indented by the alignment and ended
\* by opts.newLine, and the indentation once more after the last line break.
RECURSIVE JoinLines(_, _, _)
JoinLines(lines, align, newLine) ==
  IF lines = <<>> THEN <<>>
  ELSE Spaces(align) \o Head(lines) \o newLine \o JoinLines(Tail(lines), align, newLine)

printDocToString(doc, newLine) ==
  IF doc.lines = <<>> THEN <<>>
  ELSE JoinLines(doc.lines, doc.align, newLine) \o Spaces(doc.align)

\* printDocToDebug(doc): the Doc written out as source text.
RECURSIVE printDocToDebug(_)
printDocToDebug(doc) ==
  IF doc.lines = <<>> THEN <<>>
  ELSE Head(doc.lines) \o <<" ">> \o printDocToDebug([doc EXCEPT !.lines = Tail(@)])

\* util.getAlignmentSize(indentString, tabWidth): the columns of the indent.
TabWidth == 2

RECURSIVE getAlignmentSize(_)
getAlignmentSize(indentString) ==
  IF indentString = <<>> THEN 0
  ELSE (IF Head(indentString) = "\t" THEN TabWidth ELSE 1)
       + getAlignmentSize(Tail(indentString))


(***************************************************************************)
(* How a call ends                                                         *)
(***************************************************************************)
\* kind: "return" or "throw" ("undefined" for a function returning nothing).
\* value: the string returned.  error: the error thrown, by the stage that
\* raised it.  raised: the first error raised inside the call, "" if none.
\* nl: opts.newLine as given to the layout engine.  arg: the text given to
\* format.  ranged/rs/re/mid: whether formatRange spliced, the span that
\* calculateRange chose, and the trimmed formatted range.  msg: the text an
\* unprinted-comment error carries.  bool: the value check returns.  doc: the
\* Doc printToDoc returns.
NoRet ==
  [kind |-> "none", value |-> <<>>, error |-> "", raised |-> "", nl |-> <<>>,
   arg |-> <<>>, ranged |-> FALSE, rs |-> 0, re |-> 0, mid |-> <<>>,
   msg |-> <<>>, bool |-> FALSE, doc |-> <<>>]

Throw(e) == [NoRet EXCEPT !.kind = "throw", !.error = e, !.raised = e]

Return(v) == [NoRet EXCEPT !.kind = "return", !.value = v]

ReturnsUndefined == [NoRet EXCEPT !.kind = "undefined"]

(***************************************************************************)
(* ensureAllCommentsPrinted                                                *)
(***************************************************************************)
PrettierIgnore == <<"prettier-ignore">>

ensureAllCommentsPrinted(astComments) ==
  IF \E i \in 1..Len(astComments) : Trim(astComments[i].value) = PrettierIgnore
  THEN [threw |-> FALSE, msg |-> <<>>]
  ELSE LET unprinted == {i \in 1..Len(astComments) : ~astComments[i].printed}
       IN  IF unprinted = {} THEN [threw |-> FALSE, msg |-> <<>>]
           ELSE [threw |-> TRUE, msg |-> Trim(astComments[Min(unprinted)].value)]

(***************************************************************************)
(* Range selection: isSourceElement, findNodeAtOffset, findSiblingAncestors *)
(* and calculateRange                                                      *)
(***************************************************************************)
SourceElementTypes ==
  {"FunctionDeclaration", "BlockStatement", "BreakStatement", "ContinueStatement",
   "DebuggerStatement", "DoWhileStatement", "EmptyStatement", "ExpressionStatement",
   "ForInStatement", "ForStatement", "IfStatement", "LabeledStatement",
   "ReturnStatement", "SwitchStatement", "ThrowStatement", "TryStatement",
   "VariableDeclaration", "WhileStatement", "WithStatement"}

isSourceElement(node) == node.type \in SourceElementTypes

NullNode == Node("", 0, 0, <<>>, <<>>)

\* findNodeAtOffset returning undefined.
NotFound == [found |-> FALSE, node |-> NullNode, parentNodes |-> <<>>]

RECURSIVE findNodeAtOffset(_, _, _)
\* The loop over the sorted child nodes: the first child with a result.
RECURSIVE FirstChildResult(_, _, _)
FirstChildResult(children, offset, parentNodes) ==
  IF children = <<>> THEN NotFound
  ELSE LET childResult == findNodeAtOffset(Head(children), offset, parentNodes)
       IN  IF childResult.found THEN childResult
           ELSE FirstChildResult(Tail(children), offset, parentNodes)

findNodeAtOffset(node, offset, parentNodes) ==
  IF locStart(node) <= offset /\ offset <= locEnd(node)
  THEN LET childResult ==
             FirstChildResult(getSortedChildNodes(node), offset, <<node>> \o parentNodes)
       IN  IF childResult.found THEN childResult
           ELSE IF isSourceElement(node)
                THEN [found |-> TRUE, node |-> node, parentNodes |-> parentNodes]
                ELSE NotFound
  ELSE NotFound

\* for (const endParent of parentNodes) if (locStart(endParent) >= limit)
\*   result = endParent; else break;
RECURSIVE ClimbEnd(_, _, _)
ClimbEnd(parentNodes, result, limit) ==
  IF parentNodes = <<>> THEN result
  ELSE IF locStart(Head(parentNodes)) >= limit
       THEN ClimbEnd(Tail(parentNodes), Head(parentNodes), limit)
       ELSE result

\* for (const startParent of parentNodes) if (locEnd(startParent) <= limit)
\*   result = startParent; else break;
RECURSIVE ClimbStart(_, _, _)
ClimbStart(parentNodes, result, limit) ==
  IF parentNodes = <<>> THEN result
  ELSE IF locEnd(Head(parentNodes)) <= limit
       THEN ClimbStart(Tail(parentNodes), Head(parentNodes), limit)
       ELSE result

\* Reading .node of undefined raises a TypeError.
findSiblingAncestors(startNodeAndParents, endNodeAndParents) ==
  IF ~startNodeAndParents.found \/ ~endNodeAndParents.found
  THEN [threw |-> TRUE, startNode |-> NullNode, endNode |-> NullNode]
  ELSE [threw |-> FALSE,
        startNode |-> ClimbStart(startNodeAndParents.parentNodes,
                                 startNodeAndParents.node,
                                 locEnd(endNodeAndParents.node)),
        endNode |-> ClimbEnd(endNodeAndParents.parentNodes,
                             endNodeAndParents.node,
                             locStart(startNodeAndParents.node))]

\* The loop from opts.rangeEnd down: text[endNonWhitespace - 1].match(/\S/)
\* raises a TypeError when the offset is outside the text (Infinity - 1 is
\* Infinity).
RECURSIVE EndNonWhitespace(_, _, _)
EndNonWhitespace(t, e, rangeStart) ==
  IF ~(e > rangeStart) THEN [threw |-> FALSE, value |-> e]
  ELSE LET i == IF e = Infinity THEN Infinity ELSE e - 1
       IN  IF i >= Len(t) THEN [threw |-> TRUE, value |-> e]
           ELSE IF ~IsWhitespace(t[i + 1]) THEN [threw |-> FALSE, value |-> e]
           ELSE EndNonWhitespace(t, e - 1, rangeStart)

NoRange ==
  [threw |-> TRUE, rangeStart |-> 0, rangeEnd |-> 0, startNonWhitespace |-> 0,
   endNonWhitespace |-> 0, contracted |-> FALSE, startNode |-> NullNode,
   endNode |-> NullNode]

calculateRange(t, opts, ast) ==
  LET rangeStringOrig == Slice(t, opts.rangeStart, opts.rangeEnd)
      startNonWhitespace ==
        Max2(opts.rangeStart + SearchNonWhitespace(rangeStringOrig), opts.rangeStart)
      endLoop == EndNonWhitespace(t, opts.rangeEnd, opts.rangeStart)
  IN  IF endLoop.threw THEN NoRange
      ELSE LET endNonWhitespace == endLoop.value
               startNodeAndParents == findNodeAtOffset(ast, startNonWhitespace, <<>>)
               endNodeAndParents == findNodeAtOffset(ast, endNonWhitespace, <<>>)
               siblingAncestors ==
                 findSiblingAncestors(startNodeAndParents, endNodeAndParents)
               startNode == siblingAncestors.startNode
               endNode == siblingAncestors.endNode
           IN  IF siblingAncestors.threw
               THEN [NoRange EXCEPT !.startNonWhitespace = startNonWhitespace,
                                    !.endNonWhitespace = endNonWhitespace,
                                    !.contracted = TRUE]
               ELSE [threw |-> FALSE,
                     rangeStart |-> Min2(locStart(startNode), locStart(endNode)),
                     rangeEnd |-> Max2(locEnd(startNode), locEnd(endNode)),
                     startNonWhitespace |-> startNonWhitespace,
                     endNonWhitespace |-> endNonWhitespace,
                     contracted |-> TRUE,
                     startNode |-> startNode,
                     endNode |-> endNode]

(***************************************************************************)
(* format, formatRange, formatWithShebang                                  *)
(***************************************************************************)
RECURSIVE format(_, _, _, _)

\* The splice that ends formatRange: the text before the range, the formatted
\* range with its trailing whitespace trimmed, and the text after it.
formatRangeSplice(t, rangeStart, rangeEnd, rangeFormatted) ==
  IF rangeFormatted.kind = "throw" THEN rangeFormatted
  ELSE [rangeFormatted EXCEPT
          !.value = Slice(t, 0, rangeStart) \o TrimRight(rangeFormatted.value)
                    \o Slice(t, rangeEnd, Infinity),
          !.ranged = TRUE, !.rs = rangeStart, !.re = rangeEnd,
          !.mid = TrimRight(rangeFormatted.value)]

\* formatRange once calculateRange has answered: the range is formatted on
\* its own, over its whole length, with the alignment of its indentation.
formatRangeOf(t, e, range) ==
  IF range.threw THEN Throw("range")
  ELSE LET rangeStart == range.rangeStart
           rangeEnd == range.rangeEnd
           rangeString == Slice(t, rangeStart, rangeEnd)
           rangeStart2 == Min2(rangeStart, LastIndexOf(t, "\n", rangeStart) + 1)
           indentString == Slice(t, rangeStart2, rangeStart)
           alignmentSize == getAlignmentSize(indentString)
       IN  formatRangeSplice(t, rangeStart, rangeEnd,
             format(rangeString, [rangeStart |-> 0, rangeEnd |-> Infinity],
                    alignmentSize, e))

formatRange(t, opts, ast, e) ==
  IF 0 < opts.rangeStart \/ opts.rangeEnd < Len(t)
  THEN formatRangeOf(t, e, calculateRange(t, opts, ast))
  ELSE ReturnsUndefined

\* format after formatRange has answered: a non-empty string is returned as
\* it is; otherwise the whole text goes through the translator, the layout
\* engine and the comment check.
formatWhole(t, addAlignmentSize, e, ast, formattedRangeOnly) ==
  IF formattedRangeOnly.kind = "throw" THEN formattedRangeOnly
  ELSE IF formattedRangeOnly.kind = "return" /\ formattedRangeOnly.value # <<>>
  THEN formattedRangeOnly
  ELSE IF e.translate = "throw" THEN Throw("translate")
  ELSE LET doc == printAstToDoc(ast, addAlignmentSize)
           newLine == guessLineEnding(t)
       IN  IF e.layout = "throw" THEN Throw("layout")
           ELSE LET str == printDocToString(doc, newLine)
                    checked == ensureAllCommentsPrinted(e.comments)
                IN  IF checked.threw
                    THEN [Throw("comment") EXCEPT !.msg = checked.msg]
                    ELSE [Return(IF addAlignmentSize > 0
                                 THEN Trim(str) \o newLine
                                 ELSE str)
                           EXCEPT !.nl = newLine]

\* format after the parser has answered.
formatParsed(t, opts, addAlignmentSize, e, parsed) ==
  IF ~parsed.ok THEN Throw("parse")
  ELSE formatWhole(t, addAlignmentSize, e, parsed.ast,
                   formatRange(t, opts, parsed.ast, e))

format(t, opts, addAlignmentSize, e) ==
  formatParsed(t, opts, addAlignmentSize, e, parse(t))

\* The mutant of shebangJoin: an error of format is caught and the shebang
\* line returned alone.
shebangJoinCaught(shebang, newLine, programText, formatted) ==
  [formatted EXCEPT !.kind = "return", !.error = "",
                    !.value = IF formatted.kind = "throw" THEN shebang
                              ELSE shebang \o newLine \o @,
                    !.arg = programText]

\* The return of formatWithShebang: shebang + newLine + format(programText).
shebangJoin(shebang, newLine, programText, formatted) ==
  IF formatted.kind = "throw" THEN [formatted EXCEPT !.arg = programText]
  ELSE [formatted EXCEPT !.value = shebang \o newLine \o @, !.arg = programText]

formatWithShebang(t, opts, e) ==
  IF ~StartsWithShebang(t) THEN [format(t, opts, 0, e) EXCEPT !.arg = t]
  ELSE LET index == IndexOf(t, "\n")
           shebang == Slice(t, 0, index + 1)
           programText == Slice(t, index + 1, Infinity)
           nextChar == CharAt(t, index + 1)
           newLine == IF nextChar = "\n" THEN LF
                      ELSE IF nextChar = "\r" THEN CRLF ELSE <<>>
       IN  shebangJoin(shebang, newLine, programText, format(programText, opts, 0, e))

(***************************************************************************)
(* module.exports: format, check and the __debug hooks                     *)
(***************************************************************************)
\* options.normalize: the defaults of rangeStart and rangeEnd.
normalizeOptions(raw) ==
  [rangeStart |-> IF "rangeStart" \in DOMAIN raw THEN raw.rangeStart ELSE 0,
   rangeEnd |-> IF "rangeEnd" \in DOMAIN raw THEN raw.rangeEnd ELSE Infinity]

exportsFormat(t, raw, e) == formatWithShebang(t, normalizeOptions(raw), e)

\* The body of check: try { return formatted === text } catch (e) { return
\* caught }, with caught = false in the source.
checkAnswer(t, formatted, caught) ==
  [NoRet EXCEPT !.kind = "return", !.raised = formatted.raised,
                !.bool = IF formatted.kind = "throw" THEN caught
                         ELSE formatted.value = t]

\* The mutant of exportsCheck: the catch clause answers true.
exportsCheckCatchTrue(t, raw, e) ==
  checkAnswer(t, formatWithShebang(t, normalizeOptions(raw), e), TRUE)

exportsCheck(t, raw, e) ==
  checkAnswer(t, formatWithShebang(t, normalizeOptions(raw), e), FALSE)

debugParse(t) == IF parse(t).ok THEN Return(<<>>) ELSE Throw("parse")

\* opts.newLine is not set on this path: the layout engine's own default.
debugFormatAST(ast, raw, e) ==
  IF e.translate = "throw" THEN Throw("translate")
  ELSE IF e.layout = "throw" THEN Throw("layout")
  ELSE Return(printDocToString(printAstToDoc(ast, 0), LF))

debugFormatDoc(doc, raw, e) == format(printDocToDebug(doc), normalizeOptions(raw), 0, e)

debugPrintToDoc(t, raw, e) ==
  LET parsed == parse(t)
  IN  IF ~parsed.ok THEN Throw("parse")
      ELSE IF e.translate = "throw" THEN Throw("translate")
      ELSE [Return(<<>>) EXCEPT !.doc = printAstToDoc(parsed.ast, 0).lines]

debugPrintDocToString(doc, raw, e) ==
  IF e.layout = "throw" THEN Throw("layout") ELSE Return(printDocToString(doc, LF))


(***************************************************************************)
(* The inputs                                                              *)
(***************************************************************************)
Strings(chars, n) == UNION {[1..k -> chars] : k \in 0..n}

\* Texts: an optional shebang line (unterminated, terminated, or followed by
\* a blank line), then up to MaxBody characters.
ShebangLines ==
  {<<>>, <<"#", "!">>, <<"#", "!", "\n">>, <<"#", "!", "\r", "\n">>,
   <<"#", "!", "\n", "\n">>}

BodyChars == {"a", " ", "\n", "\r"}

Texts == {line \o body : line \in ShebangLines, body \in Strings(BodyChars, MaxBody)}

\* An option bag with the given keys only.
Bag(keys, rangeStart, rangeEnd) ==
  [k \in keys |-> IF k = "rangeStart" THEN rangeStart ELSE rangeEnd]

\* Option bags: rangeStart absent (0) or given, rangeEnd absent (Infinity) or
\* given, up to one offset past the end of the text.
OptionBags(t, maxStart, maxEnd) ==
  {Bag({}, 0, 0)}
  \cup {Bag({"rangeStart"}, a, 0) : a \in 1..Min2(maxStart, Len(t))}
  \cup {Bag({"rangeEnd"}, 0, b) : b \in 0..Min2(maxEnd, Len(t) + 1)}
  \cup {Bag({"rangeStart", "rangeEnd"}, a, b) :
          a \in 1..Min2(maxStart, Len(t)), b \in 0..Min2(maxEnd, Len(t) + 1)}

Comment(value, printed, inIgnored) ==
  [value |-> value, printed |-> printed, inIgnored |-> inIgnored]

OkEnv == [translate |-> "ok", layout |-> "ok", comments |-> <<>>]

\* What the translator and the layout engine do: work, or fail, or leave a
\* comment of the input unprinted.
Envs ==
  {OkEnv,
   [OkEnv EXCEPT !.translate = "throw"],
   [OkEnv EXCEPT !.layout = "throw"],
   [OkEnv EXCEPT !.comments = <<Comment(<<"x">>, FALSE, FALSE)>>]}

\* The comments of an input after translation: inIgnored says the comment lies
\* inside a node that a prettier-ignore comment suppresses, which is copied
\* verbatim, so that the comment is not marked printed.
CommentValues == {<<"x">>, <<" ", "prettier-ignore">>}

CommentLists ==
  {cs \in Strings({Comment(v, p, g) : v \in CommentValues, p \in BOOLEAN, g \in BOOLEAN},
                  MaxComments) :
     \A i \in 1..Len(cs) :
        cs[i].inIgnored =>
          /\ ~cs[i].printed
          /\ \E j \in 1..Len(cs) : Trim(cs[j].value) = PrettierIgnore}

CommentTexts == {<<"a">>, <<"a", "\n">>}

\* Texts for range selection alone: statements, classes and blocks.
RangeChars == {"a", " ", "c", "{", "}"}

RangeTexts == {t \in Strings(RangeChars, MaxRangeLen) : parse(t).ok}

PathIdle == stack = <<Root>> /\ frames = <<>> /\ err = FALSE /\ lastExit = NoExit

\* The command line before any file is processed: process.exitCode is not
\* set (the process would exit with 0) and process.exit has not been called.
Flags(write, listDifferent, debugCheck, debugPrintDoc) ==
  [write |-> write, listDifferent |-> listDifferent, debugCheck |-> debugCheck,
   debugPrintDoc |-> debugPrintDoc]

NoCli ==
  [flags |-> Flags(FALSE, FALSE, FALSE, FALSE), exitCode |-> 0, exited |-> FALSE,
   log |-> <<>>]

DriverIdle ==
  /\ text = <<>> /\ rawOpts = Bag({}, 0, 0) /\ env = OkEnv
  /\ called = "none" /\ ret = NoRet /\ cli = NoCli /\ reads = <<>>

(***************************************************************************)
(* The entry points                                                        *)
(***************************************************************************)
Enter(name, result) ==
  /\ called = "none"
  /\ called' = name
  /\ ret' = result
  /\ UNCHANGED <<text, rawOpts, env, stack, frames, err, lastExit, cli, reads>>

ApiFormat == Enter("format", exportsFormat(text, rawOpts, env))

ApiCheck == Enter("check", exportsCheck(text, rawOpts, env))

DebugParse == Enter("parse", debugParse(text))

\* The AST and the Doc given to the hooks are those of the text.
DebugFormatAST ==
  /\ parse(text).ok
  /\ Enter("formatAST", debugFormatAST(parse(text).ast, rawOpts, env))

DebugFormatDoc ==
  /\ parse(text).ok
  /\ Enter("formatDoc", debugFormatDoc(printAstToDoc(parse(text).ast, 0), rawOpts, env))

DebugPrintToDoc == Enter("printToDoc", debugPrintToDoc(text, rawOpts, env))

DebugPrintDocToString ==
  /\ parse(text).ok
  /\ Enter("printDocToString",
           debugPrintDocToString(printAstToDoc(parse(text).ast, 0), rawOpts, env))

\* calculateRange(text, opts, ast) as formatRange calls it.
CalculateRange ==
  /\ parse(text).ok
  /\ 0 < normalizeOptions(rawOpts).rangeStart
     \/ normalizeOptions(rawOpts).rangeEnd < Len(text)
  /\ Enter("calculateRange",
           calculateRange(text, normalizeOptions(rawOpts), parse(text).ast))

Init ==
  /\ text \in Texts
  /\ rawOpts \in OptionBags(text, MaxOffset, MaxOffset + 1)
  /\ env \in Envs
  /\ called = "none"
  /\ ret = NoRet
  /\ cli = NoCli /\ reads = <<>>
  /\ PathIdle

Next ==
  \/ ApiFormat
  \/ ApiCheck
  \/ DebugParse
  \/ DebugFormatAST
  \/ DebugFormatDoc
  \/ DebugPrintToDoc
  \/ DebugPrintDocToString

Spec == Init /\ [][Next]_vars

\* Comments: format on inputs whose comments the translator has or has not
\* printed.
CommentsInit ==
  /\ text \in CommentTexts
  /\ rawOpts = Bag({}, 0, 0)
  /\ env \in {[OkEnv EXCEPT !.comments = cs] : cs \in CommentLists}
  /\ called = "none"
  /\ ret = NoRet
  /\ cli = NoCli /\ reads = <<>>
  /\ PathIdle

CommentsNext == ApiFormat

SpecComments == CommentsInit /\ [][CommentsNext]_vars

\* Range selection: calculateRange on texts with nested statements.
RangeInit ==
  /\ text \in RangeTexts
  /\ rawOpts \in OptionBags(text, MaxRangeLen, MaxRangeLen + 1)
  /\ env = OkEnv
  /\ called = "none"
  /\ ret = NoRet
  /\ cli = NoCli /\ reads = <<>>
  /\ PathIdle

RangeNext == CalculateRange

SpecRange == RangeInit /\ [][RangeNext]_vars


(***************************************************************************)
(* The path cursor as a state machine                                      *)
(***************************************************************************)
PathInit == PathIdle /\ DriverIdle

PathNext ==
  \/ \E names \in ArgLists : PathCall(names)
  \/ \E names \in ArgLists : PathEach(names)
  \/ \E names \in ArgLists : PathMap(names)
  \/ \E r \in Results : CallbackReturns(r)
  \/ CallbackThrows
  \/ Unwind

SpecPath == PathInit /\ [][PathNext]_vars


(***************************************************************************)
(* Claims about the path cursor                                            *)
(***************************************************************************)
\* The (name, value) pairs that names n1..nk denote below `value`.
RECURSIVE PushedPairs(_, _)
PushedPairs(value, names) ==
  IF names = <<>> THEN <<>>
  ELSE LET v == IF value = Undefined THEN Undefined ELSE Get(value, Head(names))
       IN  <<Head(names), v>> \o PushedPairs(v, Tail(names))

\* C5 (as claimed): when the callback of call, each or map raises an error,
\* the stack on exit from the operation equals the stack on entry to it.
C5_RestoredOnThrow ==
  lastExit.how = "throw" => lastExit.exit = lastExit.entry

\* C6: while the callback of call(cb, n1..nk) runs, the stack is the entry
\* stack followed by the k pushed (name, value) pairs; and after call, each
\* or map returns normally, the stack is exactly the stack on entry.
C6_CallFrameAndRestore ==
  /\ (~err /\ frames # <<>> /\ frames[Len(frames)].op = "call") =>
       LET f == frames[Len(frames)]
       IN  stack = f.entry \o PushedPairs(Top(f.entry), f.names)
  /\ lastExit.how = "return" =>
       lastExit.exit = lastExit.entry

\* C6 witness: inside the callback of a call with two names, a nested
\* operation entered on the five-element stack has returned normally.
C6_Witness ==
  /\ ~err
  /\ frames # <<>>
  /\ frames[Len(frames)].op = "call"
  /\ Len(frames[Len(frames)].names) = 2
  /\ lastExit.how = "return"
  /\ Len(lastExit.entry) = 5

(***************************************************************************)
(* The driver: check, ranges, line endings, shebang lines, errors          *)
(***************************************************************************)
C1Holds(formatted, answer) ==
  /\ answer.kind = "return"
  /\ answer.bool <=> (formatted.kind = "return" /\ formatted.value = text)

\* C1: check(t, o) returns true exactly when format(t, o) returns a string
\* equal to t, and false when format returns another string or raises.
C1_CheckIffFormatEqual ==
  called = "check" => C1Holds(exportsFormat(text, rawOpts, env), ret)

\* C1 witness: check has answered true on a text that is not empty.
C1_Witness == called = "check" /\ ret.kind = "return" /\ ret.bool /\ text # <<>>

\* The offset in the input of the text that format was given.
ArgOffset == Len(text) - Len(ret.arg)

\* C2 (as claimed): when range formatting succeeds, the output is the input
\* before the chosen span, the formatted range, and the input after the
\* chosen span, with nothing inserted outside the span; also when the input
\* begins with a shebang line.
C2_RangeLocality ==
  (called = "format" /\ ret.kind = "return" /\ ret.ranged) =>
    ret.value = Slice(text, 0, ArgOffset + ret.rs) \o ret.mid
                \o Slice(text, ArgOffset + ret.re, Infinity)

\* The line ending of a text: "\r\n" iff its first "\n" follows a "\r".
ExpectedLineEnding(t) ==
  IF \E i \in 2..Len(t) :
       /\ t[i] = "\n"
       /\ t[i - 1] = "\r"
       /\ \A j \in 1..(i - 1) : t[j] # "\n"
  THEN CRLF
  ELSE LF

\* C3 (as claimed): the line ending used for the output is the one detected
\* on the whole input t, also when t begins with a shebang line and when only
\* a range of t is formatted.
C3_LineEndingOfInput ==
  (called = "format" /\ ret.kind = "return") => ret.nl = ExpectedLineEnding(text)

\* L: the first physical line of t, through its "\n", or all of t.
FirstLine(t) == IF IndexOf(t, "\n") < 0 THEN t ELSE Slice(t, 0, IndexOf(t, "\n") + 1)

\* R: the text after the first physical line.
AfterFirstLine(t) == Slice(t, Len(FirstLine(t)), Infinity)

\* E: the line ending that R starts with, or nothing.
EndingAfterFirstLine(t) ==
  IF CharAt(AfterFirstLine(t), 0) = "\n" THEN LF
  ELSE IF CharAt(AfterFirstLine(t), 0) = "\r" THEN CRLF
  ELSE <<>>

C4Holds(formattedRest, result) ==
  /\ result.arg = AfterFirstLine(text)
  /\ result.kind = formattedRest.kind
  /\ result.kind = "return" =>
       result.value = FirstLine(text) \o EndingAfterFirstLine(text)
                      \o formattedRest.value

\* C4 (as claimed): for an input that begins with "#!", the output is
\* L + E + format(R), and the shebang line is never passed to format; also
\* when the input has no "\n", where L is the whole input.
C4_ShebangPassthrough ==
  (called = "format" /\ StartsWithShebang(text)) =>
    C4Holds(format(AfterFirstLine(text), normalizeOptions(rawOpts), 0, env), ret)

\* C7 (as claimed): no entry point, check included, turns an error raised
\* inside the call into a normal return.
C7_NoEntryPointSwallows ==
  (called # "none" /\ ret.raised # "") => ret.kind = "throw"

\* C7 (amended): format and the debug hooks propagate every error raised by
\* parsing, range selection, translation, layout or the comment check to
\* their caller; check alone catches it and returns false.
C7_ErrorsPropagateExceptCheck ==
  (called # "none" /\ ret.raised # "") =>
    IF called = "check" THEN ret.kind = "return" /\ ~ret.bool
    ELSE ret.kind = "throw" /\ ret.error = ret.raised

\* C7 witness: format on a shebang text has raised the error of range
\* selection to its caller.
C7_Witness ==
  /\ called = "format"
  /\ StartsWithShebang(text)
  /\ ret.kind = "throw"
  /\ ret.error = "range"

(***************************************************************************)
(* Comments                                                                *)
(***************************************************************************)
\* The comments that are neither printed nor inside an ignored node.
Unreported == {i \in 1..Len(env.comments) :
                 ~env.comments[i].printed /\ ~env.comments[i].inIgnored}

\* C8 (as claimed): format raises the unprinted-comment error, with the
\* comment's text, whenever a comment is not printed and not inside an
\* ignored node, whether or not the input has a prettier-ignore comment.
C8_UnprintedReported ==
  (called = "format" /\ Unreported # {}) =>
    /\ ret.kind = "throw"
    /\ ret.error = "comment"
    /\ \E i \in Unreported : ret.msg = Trim(env.comments[i].value)

(***************************************************************************)
(* Range selection                                                         *)
(***************************************************************************)
\* The contracted start: the first non-whitespace offset in the range, or
\* rangeStart.
ExpectedStart(t, opts) ==
  LET inside == {i \in opts.rangeStart..(Min2(opts.rangeEnd, Len(t)) - 1) :
                   ~IsWhitespace(t[i + 1])}
  IN  IF inside = {} THEN opts.rangeStart ELSE Min(inside)

\* The contracted end: just after the last non-whitespace offset in the
\* range, or rangeStart.
ExpectedEnd(t, opts) ==
  LET inside == {i \in opts.rangeStart..(Min2(opts.rangeEnd, Len(t)) - 1) :
                   ~IsWhitespace(t[i + 1])}
  IN  IF inside = {} THEN opts.rangeStart
      ELSE 1 + CHOOSE i \in inside : \A j \in inside : j <= i

\* C9 (as claimed): for rangeStart < rangeEnd, also with rangeEnd at its
\* default or beyond the text, calculateRange does not raise and contracts
\* both endpoints inward to non-whitespace.
C9_CalculateRangeTotal ==
  (called = "calculateRange"
     /\ normalizeOptions(rawOpts).rangeStart < normalizeOptions(rawOpts).rangeEnd) =>
    /\ ~ret.threw
    /\ ret.startNonWhitespace = ExpectedStart(text, normalizeOptions(rawOpts))
    /\ ret.endNonWhitespace = ExpectedEnd(text, normalizeOptions(rawOpts))

\* The (child, parent) pairs of an AST.
RECURSIVE ParentPairs(_)
ParentPairs(node) ==
  {<<node.children[i], node>> : i \in 1..Len(node.children)}
  \cup UNION {ParentPairs(node.children[i]) : i \in 1..Len(node.children)}

SameParent(ast, m, n) ==
  \E p \in ParentPairs(ast), q \in ParentPairs(ast) :
    p[1] = m /\ q[1] = n /\ p[2] = q[2]

\* C10 (as claimed): for contracted offsets a <= b that each lie in a
\* statement-level node, the start node and the end node are the same node or
\* have the same parent, and the span returned contains a and b.
C10_SiblingAncestors ==
  (called = "calculateRange" /\ ~ret.threw
     /\ ret.startNonWhitespace <= ret.endNonWhitespace) =>
    /\ \/ ret.startNode = ret.endNode
       \/ SameParent(parse(text).ast, ret.startNode, ret.endNode)
    /\ ret.rangeStart <= ret.startNonWhitespace
    /\ ret.endNonWhitespace <= ret.rangeEnd


(***************************************************************************)
(* FastPath.prototype.needsParens                                          *)
(*                                                                         *)
(* Here the stack holds AST values as records: a node has isNode = TRUE    *)
(* and its type, operator and the attributes needsParens reads; an array   *)
(* has isNode = FALSE.  Between two values lies the property name or index *)
(* the upper one was read with, so parent.callee === node holds exactly    *)
(* when node lies directly above parent under the name "callee".           *)
(***************************************************************************)
Value(type) ==
  [isNode |-> TRUE, type |-> type, operator |-> "", prefix |-> FALSE,
   leftMost |-> type, leftType |-> "", numeric |-> FALSE, computed |-> FALSE,
   fields |-> <<>>]

ArrayValue == [Value("") EXCEPT !.isNode = FALSE]

\* n.Node.check(value)
IsNodeValue(v) == v.isNode

\* getNodeHelper(path, count), as the position in the stack of the node it
\* returns (1-based), or 0 for null.
RECURSIVE NodeScan(_, _, _)
NodeScan(s, i, count) ==
  IF i < 1 THEN 0
  ELSE IF IsNodeValue(s[i])
       THEN IF count - 1 < 0 THEN i ELSE NodeScan(s, i - 2, count - 1)
       ELSE NodeScan(s, i - 2, count)

getNodeHelper(s, count) == NodeScan(s, Len(s), count)

getNode(s, count) == getNodeHelper(s, count)

getParentNode(s, count) == getNodeHelper(s, count + 1)

\* parent[prop] === child, for the nodes at two positions of the stack.
ChildAt(s, parentPos, childPos, prop) ==
  childPos = parentPos + 2 /\ s[parentPos + 1] = prop

\* n.Statement.check(node): statements and declarations.
StatementTypes ==
  {"ExpressionStatement", "BlockStatement", "ReturnStatement", "ForStatement",
   "ClassDeclaration", "ExportDefaultDeclaration", "Program"}

\* util.getPrecedence(op): the tier of a binary or logical operator.
PrecedenceTiers ==
  << {"||"}, {"&&"}, {"|"}, {"^"}, {"&"}, {"==", "===", "!=", "!=="},
     {"<", ">", "<=", ">=", "in", "instanceof"}, {">>", "<<", ">>>"},
     {"+", "-"}, {"*", "/", "%"}, {"**"} >>

getPrecedence(op) ==
  IF \E i \in 1..Len(PrecedenceTiers) : op \in PrecedenceTiers[i]
  THEN (CHOOSE i \in 1..Len(PrecedenceTiers) : op \in PrecedenceTiers[i]) - 1
  ELSE -1

\* util.startsWithNoLookaheadToken(node, forbidFunctionAndClass), by the
\* leftmost node of the expression.
startsWithNoLookaheadToken(node, forbidFunctionAndClass) ==
  CASE node.leftMost \in {"FunctionExpression", "ClassExpression"} ->
         forbidFunctionAndClass
    [] node.leftMost = "ObjectExpression" -> TRUE
    [] OTHER -> FALSE

\* The mutant of containsCallExpression: only the node itself is looked at.
containsCallExpressionShallow(node) == node.isNode /\ node.type = "CallExpression"

\* containsCallExpression(node): the node or a value below it is a call.
RECURSIVE containsCallExpression(_)
containsCallExpression(node) ==
  IF node.isNode /\ node.type = "CallExpression" THEN TRUE
  ELSE \E i \in 1..Len(node.fields) : containsCallExpression(node.fields[i])

\* isLeftOfAForStatement(node): some ancestor is a ForStatement whose init
\* is the node or the ancestor just below.
RECURSIVE isLeftOfAForStatement(_, _, _)
isLeftOfAForStatement(s, childPos, i) ==
  LET parentPos == getParentNode(s, i)
  IN  IF parentPos = 0 THEN FALSE
      ELSE IF s[parentPos].type = "ForStatement"
              /\ ChildAt(s, parentPos, childPos, "init")
      THEN TRUE
      ELSE isLeftOfAForStatement(s, parentPos, i + 1)

\* case "UnaryExpression" (and "UpdateExpression" falling through)
unaryCase(s, parentPos, nodePos) ==
  LET parent == s[parentPos]
      node == s[nodePos]
      name == getName(s)
  IN  CASE parent.type = "UnaryExpression" ->
             node.operator = parent.operator /\ node.operator \in {"+", "-"}
        [] parent.type = "MemberExpression" ->
             name = "object" /\ ChildAt(s, parentPos, nodePos, "object")
        [] parent.type = "TaggedTemplateExpression" -> TRUE
        [] parent.type \in {"NewExpression", "CallExpression"} ->
             name = "callee" /\ ChildAt(s, parentPos, nodePos, "callee")
        [] parent.type = "BinaryExpression" ->
             parent.operator = "**" /\ name = "left"
        [] OTHER -> FALSE

\* case "UpdateExpression"
updateCase(s, parentPos, nodePos) ==
  LET parent == s[parentPos]
      node == s[nodePos]
  IN  IF parent.type = "UnaryExpression"
      THEN node.prefix /\ (\/ node.operator = "++" /\ parent.operator = "+"
                           \/ node.operator = "--" /\ parent.operator = "-")
      ELSE unaryCase(s, parentPos, nodePos)

\* The mutant of operatorCase: the special case of "**" under "**" left out.
operatorCaseNoExponent(po, no, name) ==
  LET pp == getPrecedence(po)
      np == getPrecedence(no)
  IN  IF no = "" THEN TRUE
      ELSE IF po = "||" /\ no = "&&" THEN TRUE
      ELSE IF pp > np THEN TRUE
      ELSE IF pp = np /\ name = "right" THEN TRUE
      ELSE IF po \in {"|", "^", "&", ">>", "<<", ">>>"} THEN TRUE
      ELSE FALSE

\* The mutant of operatorCase: no parentheses for "&&" under "||".
operatorCaseMixed(po, no, name) ==
  LET pp == getPrecedence(po)
      np == getPrecedence(no)
  IN  IF no = "" THEN TRUE
      ELSE IF pp > np THEN TRUE
      ELSE IF no = "**" /\ po = "**" THEN name = "left"
      ELSE IF pp = np /\ name = "right" THEN TRUE
      ELSE IF po \in {"|", "^", "&", ">>", "<<", ">>>"} THEN TRUE
      ELSE FALSE

\* A binary or logical node (or a type assertion, which has no operator)
\* under a BinaryExpression or LogicalExpression parent.
operatorCase(po, no, name) ==
  LET pp == getPrecedence(po)
      np == getPrecedence(no)
  IN  IF no = "" THEN TRUE
      ELSE IF po = "||" /\ no = "&&" THEN TRUE
      ELSE IF pp > np THEN TRUE
      ELSE IF no = "**" /\ po = "**" THEN name = "left"
      ELSE IF pp = np /\ name = "right" THEN TRUE
      ELSE IF po \in {"|", "^", "&", ">>", "<<", ">>>"} THEN TRUE
      ELSE FALSE

\* case "TSTypeAssertionExpression", "TSAsExpression", "LogicalExpression"
\* (and "BinaryExpression" falling through)
logicalCase(s, parentPos, nodePos) ==
  LET parent == s[parentPos]
      node == s[nodePos]
      name == getName(s)
  IN  CASE parent.type \in {"CallExpression", "NewExpression"} ->
             name = "callee" /\ ChildAt(s, parentPos, nodePos, "callee")
        [] parent.type = "ClassDeclaration" ->
             name = "superClass" /\ ChildAt(s, parentPos, nodePos, "superClass")
        [] parent.type \in {"TSTypeAssertionExpression", "TaggedTemplateExpression",
                            "UnaryExpression", "SpreadElement", "SpreadProperty",
                            "AwaitExpression", "TSAsExpression"} -> TRUE
        [] parent.type = "MemberExpression" ->
             name = "object" /\ ChildAt(s, parentPos, nodePos, "object")
        [] parent.type \in {"BinaryExpression", "LogicalExpression"} ->
             operatorCase(parent.operator, node.operator, name)
        [] OTHER -> FALSE

\* case "BinaryExpression"
binaryCase(s, parentPos, nodePos) ==
  IF s[parentPos].type = "UpdateExpression" THEN TRUE
  ELSE IF s[nodePos].operator = "in" /\ isLeftOfAForStatement(s, nodePos, 0) THEN TRUE
  ELSE logicalCase(s, parentPos, nodePos)

\* case "SequenceExpression"
sequenceCase(parent, name) ==
  CASE parent.type \in {"ReturnStatement", "ForStatement"} -> FALSE
    [] parent.type = "ExpressionStatement" -> name # "expression"
    [] OTHER -> TRUE

\* The mutant of awaitCase: a UnaryExpression parent asks for parentheses.
awaitCaseUnary(s, parentPos, nodePos) ==
  LET parent == s[parentPos]
  IN  CASE parent.type \in {"TaggedTemplateExpression", "BinaryExpression",
                            "LogicalExpression", "SpreadElement", "SpreadProperty",
                            "UnaryExpression"} ->
             TRUE
        [] parent.type = "MemberExpression" -> ChildAt(s, parentPos, nodePos, "object")
        [] parent.type \in {"NewExpression", "CallExpression"} ->
             ChildAt(s, parentPos, nodePos, "callee")
        [] parent.type = "ConditionalExpression" ->
             ChildAt(s, parentPos, nodePos, "test")
        [] OTHER -> FALSE

\* case "AwaitExpression" (and "YieldExpression" falling through)
awaitCase(s, parentPos, nodePos) ==
  LET parent == s[parentPos]
  IN  CASE parent.type \in {"TaggedTemplateExpression", "BinaryExpression",
                            "LogicalExpression", "SpreadElement", "SpreadProperty"} ->
             TRUE
        [] parent.type = "MemberExpression" -> ChildAt(s, parentPos, nodePos, "object")
        [] parent.type \in {"NewExpression", "CallExpression"} ->
             ChildAt(s, parentPos, nodePos, "callee")
        [] parent.type = "ConditionalExpression" ->
             ChildAt(s, parentPos, nodePos, "test")
        [] OTHER -> FALSE

\* case "YieldExpression"
yieldCase(s, parentPos, nodePos) ==
  IF s[parentPos].type \in {"UnaryExpression", "AwaitExpression"} THEN TRUE
  ELSE awaitCase(s, parentPos, nodePos)

\* case "NumericLiteral", "Literal"
literalCase(s, parentPos, nodePos) ==
  /\ s[parentPos].type = "MemberExpression"
  /\ s[nodePos].numeric
  /\ getName(s) = "object"
  /\ ChildAt(s, parentPos, nodePos, "object")

\* case "AssignmentExpression"
assignmentCase(s, parentPos, nodePos) ==
  LET parent == s[parentPos]
      node == s[nodePos]
      grandParentPos == getParentNode(s, 1)
  IN  IF parent.type = "ArrowFunctionExpression"
         /\ ChildAt(s, parentPos, nodePos, "body")
      THEN TRUE
      ELSE IF parent.type = "ClassProperty" /\ ChildAt(s, parentPos, nodePos, "key")
              /\ parent.computed
      THEN FALSE
      ELSE IF parent.type = "TSPropertySignature"
              /\ ChildAt(s, parentPos, nodePos, "name")
      THEN FALSE
      ELSE IF parent.type = "ForStatement"
              /\ (\/ ChildAt(s, parentPos, nodePos, "init")
                  \/ ChildAt(s, parentPos, nodePos, "update"))
      THEN FALSE
      ELSE IF parent.type = "ExpressionStatement" THEN node.leftType = "ObjectPattern"
      ELSE IF parent.type = "AssignmentExpression" THEN FALSE
      ELSE IF parent.type = "SequenceExpression"
              /\ grandParentPos # 0
              /\ s[grandParentPos].type = "ForStatement"
              /\ (\/ ChildAt(s, grandParentPos, parentPos, "init")
                  \/ ChildAt(s, grandParentPos, parentPos, "update"))
      THEN FALSE
      ELSE TRUE

\* case "ConditionalExpression"
conditionalCase(s, parentPos, nodePos) ==
  LET parent == s[parentPos]
      name == getName(s)
  IN  CASE parent.type \in {"TaggedTemplateExpression", "UnaryExpression",
                            "SpreadElement", "SpreadProperty", "BinaryExpression",
                            "LogicalExpression", "ExportDefaultDeclaration",
                            "AwaitExpression", "JSXSpreadAttribute",
                            "TSTypeAssertionExpression", "TSAsExpression"} ->
             TRUE
        [] parent.type \in {"NewExpression", "CallExpression"} ->
             name = "callee" /\ ChildAt(s, parentPos, nodePos, "callee")
        [] parent.type = "ConditionalExpression" ->
             name = "test" /\ ChildAt(s, parentPos, nodePos, "test")
        [] parent.type = "MemberExpression" ->
             name = "object" /\ ChildAt(s, parentPos, nodePos, "object")
        [] OTHER -> FALSE

\* case "FunctionExpression"
functionCase(parent, name) ==
  CASE parent.type = "CallExpression" -> name = "callee"
    [] parent.type \in {"TaggedTemplateExpression", "ExportDefaultDeclaration"} -> TRUE
    [] OTHER -> FALSE

\* case "ArrowFunctionExpression"
arrowCase(parent, name) ==
  CASE parent.type \in {"CallExpression", "NewExpression"} -> name = "callee"
    [] parent.type = "MemberExpression" -> name = "object"
    [] parent.type \in {"TSAsExpression", "BindExpression", "TaggedTemplateExpression",
                        "UnaryExpression", "LogicalExpression", "BinaryExpression",
                        "AwaitExpression", "TSTypeAssertionExpression"} ->
         TRUE
    [] parent.type = "ConditionalExpression" -> name = "test"
    [] OTHER -> FALSE

\* The node types that the clause for the extends clause of a class names.
SuperClassTypes ==
  {"ArrowFunctionExpression", "AssignmentExpression", "AwaitExpression",
   "BinaryExpression", "ConditionalExpression", "LogicalExpression",
   "NewExpression", "ObjectExpression", "ParenthesizedExpression",
   "SequenceExpression", "TaggedTemplateExpression", "UnaryExpression",
   "UpdateExpression", "YieldExpression"}

\* The node types that have a case in the switch on node.type.
SwitchTypes ==
  {"CallExpression", "SpreadElement", "SpreadProperty", "UpdateExpression",
   "UnaryExpression", "BinaryExpression", "TSTypeAssertionExpression",
   "TSAsExpression", "LogicalExpression", "SequenceExpression", "YieldExpression",
   "AwaitExpression", "ArrayTypeAnnotation", "IntersectionTypeAnnotation",
   "UnionTypeAnnotation", "NullableTypeAnnotation", "FunctionTypeAnnotation",
   "NumericLiteral", "Literal", "AssignmentExpression", "ConditionalExpression",
   "FunctionExpression", "ArrowFunctionExpression", "ClassExpression",
   "StringLiteral"}

\* switch (node.type), for the types that have a case.
typeSwitch(s, parentPos, nodePos) ==
  LET parent == s[parentPos]
      node == s[nodePos]
      name == getName(s)
  IN  CASE node.type = "CallExpression" ->
             parent.type = "NewExpression" /\ ChildAt(s, parentPos, nodePos, "callee")
        [] node.type \in {"SpreadElement", "SpreadProperty"} ->
             /\ parent.type = "MemberExpression"
             /\ name = "object"
             /\ ChildAt(s, parentPos, nodePos, "object")
        [] node.type = "UpdateExpression" -> updateCase(s, parentPos, nodePos)
        [] node.type = "UnaryExpression" -> unaryCase(s, parentPos, nodePos)
        [] node.type = "BinaryExpression" -> binaryCase(s, parentPos, nodePos)
        [] node.type \in {"TSTypeAssertionExpression", "TSAsExpression",
                          "LogicalExpression"} ->
             logicalCase(s, parentPos, nodePos)
        [] node.type = "SequenceExpression" -> sequenceCase(parent, name)
        [] node.type = "YieldExpression" -> yieldCase(s, parentPos, nodePos)
        [] node.type = "AwaitExpression" -> awaitCase(s, parentPos, nodePos)
        [] node.type = "ArrayTypeAnnotation" -> parent.type = "NullableTypeAnnotation"
        [] node.type \in {"IntersectionTypeAnnotation", "UnionTypeAnnotation"} ->
             parent.type \in {"ArrayTypeAnnotation", "NullableTypeAnnotation",
                              "IntersectionTypeAnnotation", "UnionTypeAnnotation"}
        [] node.type = "NullableTypeAnnotation" -> parent.type = "ArrayTypeAnnotation"
        [] node.type = "FunctionTypeAnnotation" ->
             parent.type \in {"UnionTypeAnnotation", "IntersectionTypeAnnotation"}
        [] node.type \in {"NumericLiteral", "Literal"} ->
             literalCase(s, parentPos, nodePos)
        [] node.type = "AssignmentExpression" -> assignmentCase(s, parentPos, nodePos)
        [] node.type = "ConditionalExpression" -> conditionalCase(s, parentPos, nodePos)
        [] node.type = "FunctionExpression" -> functionCase(parent, name)
        [] node.type = "ArrowFunctionExpression" -> arrowCase(parent, name)
        [] node.type = "ClassExpression" -> parent.type = "ExportDefaultDeclaration"
        [] node.type = "StringLiteral" -> parent.type = "ExpressionStatement"

\* The mutant of superClassClause: every expression after extends is wrapped.
superClassClauseAll(s, parentPos, nodePos) ==
  /\ s[parentPos].type \in {"ClassDeclaration", "ClassExpression"}
  /\ ChildAt(s, parentPos, nodePos, "superClass")

\* The clause for the extends clause of a class.
superClassClause(s, parentPos, nodePos) ==
  /\ s[parentPos].type \in {"ClassDeclaration", "ClassExpression"}
  /\ ChildAt(s, parentPos, nodePos, "superClass")
  /\ s[nodePos].type \in SuperClassTypes

\* The clause for an arrow body or an expression statement that starts with
\* a token the grammar forbids there.
statementStartClause(s, parentPos, nodePos) ==
  \/ /\ s[parentPos].type = "ArrowFunctionExpression"
     /\ ChildAt(s, parentPos, nodePos, "body")
     /\ startsWithNoLookaheadToken(s[nodePos], FALSE)
  \/ /\ s[parentPos].type = "ExpressionStatement"
     /\ startsWithNoLookaheadToken(s[nodePos], TRUE)

\* needsParens after parent and node are known to exist.
needsParensOf(s, parentPos, nodePos) ==
  IF nodePos # Len(s) THEN FALSE
  ELSE IF s[nodePos].type \in StatementTypes THEN FALSE
  ELSE IF s[nodePos].type = "Identifier" THEN FALSE
  ELSE IF s[parentPos].type = "ParenthesizedExpression" THEN FALSE
  ELSE IF superClassClause(s, parentPos, nodePos) THEN TRUE
  ELSE IF statementStartClause(s, parentPos, nodePos) THEN TRUE
  ELSE IF s[nodePos].type \in SwitchTypes THEN typeSwitch(s, parentPos, nodePos)
  ELSE IF s[parentPos].type = "NewExpression"
          /\ getName(s) = "callee"
          /\ ChildAt(s, parentPos, nodePos, "callee")
  THEN containsCallExpression(s[nodePos])
  ELSE FALSE

needsParens(s) ==
  IF getParentNode(s, 0) = 0 THEN FALSE
  ELSE needsParensOf(s, getParentNode(s, 0), getNode(s, 0))

(***************************************************************************)
(* The cursor positions needsParens is asked about                         *)
(***************************************************************************)
WithCall(v) == [v EXCEPT !.fields = <<Value("CallExpression")>>]

\* A call among the elements of an array field (arguments, elements).
WithArrayCall(v) ==
  [v EXCEPT !.fields = <<[ArrayValue EXCEPT !.fields = <<Value("CallExpression")>>]>>]

WithOperator(v, op) == [v EXCEPT !.operator = op]

BinaryOperators == {"+", "*", "**", "in", "|", "=="}

LogicalOperators == {"||", "&&"}

UnaryOperators == {"+", "-", "!"}

CompositeTypes ==
  {"MemberExpression", "NewExpression", "ObjectExpression", "TaggedTemplateExpression",
   "FunctionExpression", "ArrowFunctionExpression", "ClassExpression",
   "ConditionalExpression", "SequenceExpression", "YieldExpression", "AwaitExpression",
   "ParenthesizedExpression", "TSAsExpression", "TSTypeAssertionExpression"}

OperatorNodes ==
  {WithOperator(Value("BinaryExpression"), op) : op \in BinaryOperators}
  \cup {WithOperator(Value("LogicalExpression"), op) : op \in LogicalOperators}

Expressions ==
  {Value("Identifier"), Value("StringLiteral"), Value("CallExpression"),
   [Value("NumericLiteral") EXCEPT !.numeric = TRUE],
   Value("Literal"), [Value("Literal") EXCEPT !.numeric = TRUE],
   WithArrayCall(Value("MemberExpression")),
   [Value("CallExpression") EXCEPT !.leftMost = "FunctionExpression"],
   [Value("MemberExpression") EXCEPT !.leftMost = "ObjectExpression"],
   [Value("AssignmentExpression") EXCEPT !.leftType = "Identifier"],
   [Value("AssignmentExpression") EXCEPT !.leftType = "ObjectPattern"]}
  \cup {Value(t) : t \in CompositeTypes}
  \cup {WithCall(Value(t)) : t \in CompositeTypes}
  \cup OperatorNodes
  \cup {WithCall(v) : v \in OperatorNodes}
  \cup {WithOperator(Value("UnaryExpression"), op) : op \in UnaryOperators}
  \cup {[WithOperator(Value("UpdateExpression"), op) EXCEPT !.prefix = b] :
          op \in {"++", "--"}, b \in BOOLEAN}

TypeAnnotations ==
  {Value(t) : t \in {"ArrayTypeAnnotation", "IntersectionTypeAnnotation",
                     "UnionTypeAnnotation", "NullableTypeAnnotation",
                     "FunctionTypeAnnotation"}}

\* A position: the parent, the property the child is read from, and whether
\* that property is an array (the child is then its element 0).
Position(parent, prop, inArray) == [parent |-> parent, prop |-> prop, inArray |-> inArray]

ExpressionPositions ==
  {Position(p, n, FALSE) : p \in OperatorNodes, n \in {"left", "right"}}
  \cup {Position(WithOperator(Value("UnaryExpression"), op), "argument", FALSE) :
          op \in UnaryOperators}
  \cup {Position(Value(t), "argument", FALSE) :
          t \in {"UpdateExpression", "AwaitExpression", "YieldExpression",
                 "SpreadElement", "SpreadProperty", "ReturnStatement",
                 "JSXSpreadAttribute"}}
  \cup {Position(Value(t), "callee", FALSE) :
          t \in {"CallExpression", "NewExpression", "BindExpression"}}
  \cup {Position(Value(t), "arguments", TRUE) : t \in {"CallExpression", "NewExpression"}}
  \cup {Position(Value("MemberExpression"), n, FALSE) : n \in {"object", "property"}}
  \cup {Position(Value("ConditionalExpression"), n, FALSE) :
          n \in {"test", "consequent", "alternate"}}
  \cup {Position(Value(t), "superClass", FALSE) :
          t \in {"ClassDeclaration", "ClassExpression"}}
  \cup {Position(Value(t), "expression", FALSE) :
          t \in {"ExpressionStatement", "ParenthesizedExpression", "TSAsExpression",
                 "TSTypeAssertionExpression"}}
  \cup {Position(Value("ArrowFunctionExpression"), "body", FALSE),
        Position(Value("ExportDefaultDeclaration"), "declaration", FALSE),
        Position(Value("TaggedTemplateExpression"), "tag", FALSE),
        Position(Value("AssignmentExpression"), "right", FALSE),
        Position(Value("SequenceExpression"), "expressions", TRUE),
        Position(Value("TSPropertySignature"), "name", FALSE)}
  \cup {Position(Value("ForStatement"), n, FALSE) : n \in {"init", "test", "update"}}
  \cup {Position([Value("ClassProperty") EXCEPT !.computed = b], n, FALSE) :
          b \in BOOLEAN, n \in {"key", "value"}}

AnnotationPositions ==
  {Position(Value("ArrayTypeAnnotation"), "elementType", FALSE),
   Position(Value("NullableTypeAnnotation"), "typeAnnotation", FALSE),
   Position(Value("UnionTypeAnnotation"), "types", TRUE),
   Position(Value("IntersectionTypeAnnotation"), "types", TRUE)}

\* The positions with the values that an AST can hold there.
Placements ==
  {<<pos, v>> : pos \in ExpressionPositions, v \in Expressions}
  \cup {<<pos, v>> : pos \in AnnotationPositions, v \in TypeAnnotations}
  \cup {<<Position(Value(t), "arguments", TRUE), Value("SpreadElement")>> :
          t \in {"CallExpression", "NewExpression"}}
  \cup {<<Position(Value("ObjectExpression"), "properties", TRUE),
          Value("SpreadProperty")>>,
        <<Position(Value("Program"), "body", TRUE), Value("ExpressionStatement")>>}

\* What lies below the parent: nothing (the parent is the root), or the head
\* of a for statement, or an expression statement.
Contexts ==
  {<<>>, <<Value("ForStatement"), "init">>, <<Value("ForStatement"), "update">>,
   <<Value("ExpressionStatement"), "expression">>}

\* The parents that are expressions, so that a context can hold them.
IsExpressionParent(parent) ==
  parent.type \in {"BinaryExpression", "LogicalExpression", "UnaryExpression",
                   "CallExpression", "MemberExpression", "ConditionalExpression",
                   "AssignmentExpression", "SequenceExpression"}

StackOf(context, pos, v) ==
  context \o <<pos.parent, pos.prop>>
  \o (IF pos.inArray THEN <<ArrayValue, "0">> ELSE <<>>) \o <<v>>

ParensStacks ==
  {<<v>> : v \in Expressions}
  \cup {StackOf(<<>>, pl[1], pl[2]) : pl \in Placements}
  \cup {StackOf(c, pl[1], pl[2]) :
          c \in Contexts \ {<<>>},
          pl \in {q \in Placements : IsExpressionParent(q[1].parent)}}

\* path.needsParens() at a position of the cursor.
NeedsParens ==
  /\ called = "none"
  /\ called' = "needsParens"
  /\ ret' = [NoRet EXCEPT !.kind = "return", !.bool = needsParens(stack)]
  /\ UNCHANGED <<stack, frames, err, lastExit, text, rawOpts, env, cli, reads>>

ParensInit ==
  /\ stack \in ParensStacks
  /\ frames = <<>> /\ err = FALSE /\ lastExit = NoExit
  /\ DriverIdle

ParensNext == NeedsParens

SpecParens == ParensInit /\ [][ParensNext]_vars

(***************************************************************************)
(* Parentheses                                                             *)
(***************************************************************************)
ParensNode == stack[Len(stack)]

ParensName == stack[Len(stack) - 1]

ParensParent == stack[Len(stack) - 2]

\* needsParens has answered for a node read from one of the properties
\* props of a parent of one of the types.
Under(types, props) ==
  /\ called = "needsParens"
  /\ Len(stack) >= 3
  /\ ParensParent.isNode
  /\ ParensParent.type \in types
  /\ ParensName \in props

OperatorTypes == {"BinaryExpression", "LogicalExpression"}

\* C11 (as claimed): needsParens is false for "&&" as an operand of "||",
\* and true for "||" as an operand of "&&".
C11_AndUnderOrBare ==
  (Under({"LogicalExpression"}, {"left", "right"})
     /\ ParensNode.type = "LogicalExpression") =>
    /\ (ParensNode.operator = "&&" /\ ParensParent.operator = "||") => ~ret.bool
    /\ (ParensNode.operator = "||" /\ ParensParent.operator = "&&") => ret.bool

\* C11 (amended): needsParens is true for "&&" as an operand of "||", and
\* true for "||" as an operand of "&&".
C11_MixedLogicalWrapped ==
  (Under({"LogicalExpression"}, {"left", "right"})
     /\ ParensNode.type = "LogicalExpression"
     /\ ParensNode.operator # ParensParent.operator) =>
    ret.bool

\* C11 witness: "&&" as the right operand of "||" has been answered true.
C11_Witness ==
  /\ Under({"LogicalExpression"}, {"right"})
  /\ ParensNode.type = "LogicalExpression"
  /\ ParensNode.operator = "&&"
  /\ ParensParent.operator = "||"
  /\ ret.bool

\* A binary or logical node as an operand of a binary or logical parent.
OperandOfOperator ==
  Under(OperatorTypes, {"left", "right"}) /\ ParensNode.type \in OperatorTypes

Higher == getPrecedence(ParensParent.operator) > getPrecedence(ParensNode.operator)

Equal == getPrecedence(ParensParent.operator) = getPrecedence(ParensNode.operator)

\* C12 (as claimed): true when the parent's precedence is higher; true when
\* the precedences are equal and the node is the right operand, "**"
\* included; true for "**" as the left operand of "**".
C12_PrecedenceRightAlways ==
  OperandOfOperator =>
    /\ Higher => ret.bool
    /\ (Equal /\ ParensName = "right") => ret.bool
    /\ (ParensNode.operator = "**" /\ ParensParent.operator = "**"
          /\ ParensName = "left") => ret.bool

\* C12 (amended): true when the parent's precedence is higher; when the
\* precedences are equal and the node is the right operand, true for every
\* operator but "**"; "**" under "**" is true as the left operand and false
\* as the right operand.
C12_PrecedenceExponentRight ==
  OperandOfOperator =>
    /\ Higher => ret.bool
    /\ (Equal /\ ParensName = "right" /\ ParensNode.operator # "**") => ret.bool
    /\ (ParensNode.operator = "**" /\ ParensParent.operator = "**") =>
         (ret.bool <=> ParensName = "left")

\* C12 witness: "**" as the right operand of "**" has been answered false.
C12_Witness ==
  /\ OperandOfOperator
  /\ ParensNode.operator = "**"
  /\ ParensParent.operator = "**"
  /\ ParensName = "right"
  /\ ~ret.bool

ClassTypes == {"ClassDeclaration", "ClassExpression"}

\* C13 (as claimed): every expression other than an Identifier that is the
\* superClass of a class is answered true.
C13_SuperClassAlways ==
  (Under(ClassTypes, {"superClass"}) /\ ParensNode.type # "Identifier") => ret.bool

\* C13 (amended): as the superClass of a class, the types that the extends
\* clause of needsParens lists are answered true; CallExpression,
\* MemberExpression, FunctionExpression and ClassExpression are answered
\* false.
C13_SuperClassListed ==
  Under(ClassTypes, {"superClass"}) =>
    /\ ParensNode.type \in
         {"ArrowFunctionExpression", "AssignmentExpression", "AwaitExpression",
          "BinaryExpression", "ConditionalExpression", "LogicalExpression",
          "NewExpression", "ObjectExpression", "ParenthesizedExpression",
          "SequenceExpression", "TaggedTemplateExpression", "UnaryExpression",
          "UpdateExpression", "YieldExpression"} => ret.bool
    /\ ParensNode.type \in
         {"CallExpression", "MemberExpression", "FunctionExpression",
          "ClassExpression"} => ~ret.bool

\* C13 witness: a CallExpression after extends has been answered false.
C13_Witness ==
  /\ Under({"ClassDeclaration"}, {"superClass"})
  /\ ParensNode.type = "CallExpression"
  /\ ~ret.bool

\* The positions C14 names.
YieldAwaitPosition ==
  \/ Under({"UnaryExpression"}, {"argument"})
  \/ Under(OperatorTypes, {"left", "right"})
  \/ Under({"SpreadElement", "SpreadProperty"}, {"argument"})
  \/ Under({"MemberExpression"}, {"object"})
  \/ Under({"CallExpression", "NewExpression"}, {"callee"})
  \/ Under({"ConditionalExpression"}, {"test"})

\* C14 (as claimed): YieldExpression and AwaitExpression are both answered
\* true in each of these positions.
C14_YieldAwaitAlways ==
  (YieldAwaitPosition /\ ParensNode.type \in {"YieldExpression", "AwaitExpression"}) =>
    ret.bool

\* C14 (amended): YieldExpression is answered true in each of these
\* positions; AwaitExpression is answered true in each of them except as the
\* operand of a UnaryExpression, where it is answered false.
C14_AwaitBareUnderUnary ==
  /\ (YieldAwaitPosition /\ ParensNode.type = "YieldExpression") => ret.bool
  /\ (YieldAwaitPosition /\ ParensNode.type = "AwaitExpression") =>
       (ret.bool <=> ParensParent.type # "UnaryExpression")

\* C14 witness: an AwaitExpression under a UnaryExpression, answered false.
C14_Witness ==
  /\ Under({"UnaryExpression"}, {"argument"})
  /\ ParensNode.type = "AwaitExpression"
  /\ ~ret.bool

\* The value is a CallExpression or holds one.
RECURSIVE SubtreeHasCall(_)
SubtreeHasCall(v) ==
  \/ v.isNode /\ v.type = "CallExpression"
  \/ \E i \in 1..Len(v.fields) : SubtreeHasCall(v.fields[i])

\* C15 (as claimed): the callee of a NewExpression whose subtree holds a
\* CallExpression is answered true, whatever its type.
C15_CalleeWithCallAlways ==
  (Under({"NewExpression"}, {"callee"}) /\ SubtreeHasCall(ParensNode)) => ret.bool

\* C15 (amended): the callee of a NewExpression whose subtree holds a
\* CallExpression is answered true, except a FunctionExpression or a
\* ClassExpression, which is answered false.
C15_CalleeWithCallButFunction ==
  (Under({"NewExpression"}, {"callee"}) /\ SubtreeHasCall(ParensNode)) =>
    (ret.bool <=> ParensNode.type \notin {"FunctionExpression", "ClassExpression"})

\* C15 witness: a MemberExpression with a call among its arguments, as the
\* callee of new, has been answered true.
C15_Witness ==
  /\ Under({"NewExpression"}, {"callee"})
  /\ ParensNode.type = "MemberExpression"
  /\ ParensNode.fields # <<>>
  /\ ~ParensNode.fields[1].isNode
  /\ ret.bool

(***************************************************************************)
(* The command line: the callback that eachFilename runs for every file    *)
(***************************************************************************)
\* A file as the command line meets it.  ignored: shouldIgnorePattern skips
\* it.  readable: fs.readFileSync succeeds.  outcome: how prettier.format
\* ends on its contents ("ok", or the kind of error raised).  changed: the
\* formatted text differs from the contents.  empty: the formatted text is
\* the empty string.  second: format(format(input)) is the same text,
\* another text, or raises.  astSame: the cleaned ASTs of the input and of
\* the formatted text are equal.  writable: fs.writeFileSync succeeds.
File(ignored, readable, outcome, changed, empty, second, astSame, writable) ==
  [ignored |-> ignored, readable |-> readable, outcome |-> outcome,
   changed |-> changed, empty |-> empty, second |-> second, astSame |-> astSame,
   writable |-> writable]

Files ==
  {File(TRUE, TRUE, "ok", FALSE, FALSE, "same", TRUE, TRUE),
   File(FALSE, FALSE, "ok", FALSE, FALSE, "same", TRUE, TRUE)}
  \cup {File(FALSE, TRUE, o, TRUE, FALSE, "same", TRUE, TRUE) :
          o \in {"parseError", "validationError", "error"}}
  \cup {File(FALSE, TRUE, "ok", c, e, sec, a, w) :
          c \in BOOLEAN, e \in BOOLEAN, sec \in {"same", "differs", "throws"},
          a \in BOOLEAN, w \in BOOLEAN}

\* prettier.check(input, options): errors are caught and answered false.
cliCheck(f) == f.outcome = "ok" /\ ~f.changed

NoOutput == [threw |-> "", defined |-> FALSE, truthy |-> FALSE, same |-> FALSE]

Thrown(e) == [NoOutput EXCEPT !.threw = e]

\* A string returned: truthy unless empty; `same` says output === input.
Formatted(f) ==
  [NoOutput EXCEPT !.defined = TRUE, !.truthy = ~f.empty, !.same = ~f.changed]

\* format(input) of the command line.
cliFormat(flags, f) ==
  IF flags.debugPrintDoc
  THEN IF f.outcome # "ok" THEN Thrown(f.outcome) ELSE Formatted(f)
  ELSE IF flags.debugCheck
  THEN IF f.outcome # "ok" THEN Thrown(f.outcome)
       ELSE IF f.second = "throws" THEN Thrown("error")
       ELSE IF f.second = "differs" THEN Thrown("notIdempotent")
       ELSE IF ~f.astSame THEN Thrown("astDiffers")
       ELSE NoOutput
  ELSE IF f.outcome # "ok" THEN Thrown(f.outcome) ELSE Formatted(f)

\* handleError(filename, e): a validation error ends the process with 1;
\* every other error sets process.exitCode = 2.
handleError(c, e) ==
  IF e = "validationError" THEN [c EXCEPT !.exited = TRUE, !.exitCode = 1]
  ELSE [c EXCEPT !.exitCode = 2]

\* The callback from `output = format(input)` on.
afterFormat(c, f, output) ==
  IF output.threw # "" THEN handleError(c, output.threw)
  ELSE IF c.flags.write
  THEN IF output.same THEN c
       ELSE IF f.writable THEN c ELSE [c EXCEPT !.exitCode = 2]
  ELSE IF c.flags.debugCheck
  THEN IF output.truthy THEN c ELSE [c EXCEPT !.exitCode = 2]
  ELSE c

\* The callback after the file is read: --list-different.
afterRead(c, f) ==
  IF c.flags.listDifferent /\ ~cliCheck(f) THEN [c EXCEPT !.exitCode = 1] ELSE c

\* The callback of eachFilename for one file.
eachFile(c, f) ==
  IF f.ignored THEN c
  ELSE IF ~f.readable THEN [c EXCEPT !.exitCode = 2]
  ELSE afterFormat(afterRead(c, f), f, cliFormat(c.flags, f))

\* The next file of the command line is processed.
ProcessFile(f) ==
  /\ ~cli.exited
  /\ Len(cli.log) < MaxFiles
  /\ cli' = [eachFile(cli, f) EXCEPT !.log = Append(cli.log, f)]
  /\ UNCHANGED <<stack, frames, err, lastExit, text, rawOpts, env, called, ret, reads>>

\* --write and --debug-check together end the process before any file.
FlagSets ==
  {Flags(w, l, d, p) : w \in BOOLEAN, l \in BOOLEAN, d \in BOOLEAN, p \in BOOLEAN}
  \ {Flags(TRUE, l, TRUE, p) : l \in BOOLEAN, p \in BOOLEAN}

CliInit ==
  /\ PathIdle
  /\ text = <<>> /\ rawOpts = Bag({}, 0, 0) /\ env = OkEnv
  /\ called = "none" /\ ret = NoRet
  /\ cli \in {[NoCli EXCEPT !.flags = fl] : fl \in FlagSets}
  /\ reads = <<>>

CliNext == \E f \in Files : ProcessFile(f)

SpecCli == CliInit /\ [][CliNext]_vars

(***************************************************************************)
(* Exit codes                                                              *)
(***************************************************************************)
\* The file had a per-file failure: it could not be read, or formatting it
\* raised an error, or it could not be written.
FileFailed(fl, f) ==
  /\ ~f.ignored
  /\ \/ ~f.readable
     \/ cliFormat(fl, f).threw # ""
     \/ fl.write /\ f.changed /\ ~f.writable

\* --list-different found the file to differ.
FileDiffers(fl, f) == ~f.ignored /\ f.readable /\ fl.listDifferent /\ ~cliCheck(f)

ExpectedExitCode(c) ==
  IF \E i \in 1..Len(c.log) : FileFailed(c.flags, c.log[i]) THEN 2
  ELSE IF \E i \in 1..Len(c.log) : FileDiffers(c.flags, c.log[i]) THEN 1
  ELSE 0

\* C16 (as claimed): after any sequence of files the exit code is 2 if a file
\* had a per-file failure, otherwise 1 if --list-different found a file that
\* differs, otherwise 0; a later file never lowers the code of an earlier
\* failure.
C16_ExitCode ==
  (~cli.exited /\ ~cli.flags.debugCheck) => cli.exitCode = ExpectedExitCode(cli)

\* The file passes both comparisons of --debug-check.
PassesDebugCheck(f) ==
  f.readable /\ f.outcome = "ok" /\ f.second = "same" /\ f.astSame

\* C17 (as claimed): under --debug-check a file marks the run failed (exit
\* code 2) exactly when one of the two comparisons fails; a run in which
\* every file passes exits with 0.
C17_DebugCheckPassing ==
  (cli.flags.debugCheck /\ ~cli.flags.listDifferent /\ ~cli.flags.debugPrintDoc
     /\ \A i \in 1..Len(cli.log) : PassesDebugCheck(cli.log[i])) =>
    cli.exitCode = 0

(***************************************************************************)
(* Idempotence                                                             *)
(***************************************************************************)
FormatsToItself(again, formatted) ==
  again.kind = "return" /\ again.value = formatted

\* C18: for every valid input t and option bag o, formatting is idempotent:
\* format(format(t, o), o) equals format(t, o).
C18_Idempotent ==
  (called = "format" /\ ret.kind = "return") =>
    FormatsToItself(exportsFormat(ret.value, rawOpts, env), ret.value)

(***************************************************************************)
(* The shape of the stack                                                  *)
(***************************************************************************)
\* The property names and array indices that can be on the stack.
Keys == Names \cup {IndexKey(i) : i \in 0..2}

\* The pair at stack[2k], stack[2k + 1] (elements 2k - 1 and 2k of the
\* source's 0-based stack) is a name and the value read by that name from
\* the value below it.
PairReadsFromBelow(s, k) ==
  /\ s[2 * k] \in Keys
  /\ s[2 * k - 1] # Undefined
  /\ s[2 * k + 1] = Get(s[2 * k - 1], s[2 * k])

\* C19: in every state reachable by any nesting of call, each and map, the
\* stack has odd length, its first element is the root, and every later pair
\* is a property name or array index followed by the value read by that name
\* from the value before the pair.
C19_StackShape ==
  /\ Len(stack) % 2 = 1
  /\ stack[1] = Root
  /\ \A k \in 1..((Len(stack) - 1) \div 2) : PairReadsFromBelow(stack, k)

\* A map over the statements of the block, nested in an each over the
\* statements of the program, with the second statement current.
C19_Witness ==
  /\ Len(frames) = 2
  /\ frames[1].op = "each"
  /\ frames[2].op = "map"
  /\ Len(stack) = 9
  /\ stack[4] = "1"

(***************************************************************************)
(* The iteration of each and map                                           *)
(***************************************************************************)
\* The indices present in the array.
PresentIndices(value) ==
  {i \in 0..(Heap[value].length - 1) : IndexKey(i) \in DOMAIN Heap[value].props}

\* The invocations so far are for present indices in ascending order, and
\* each saw the index as getName() and the element as getValue().
VisitsAscending(visited, value) ==
  /\ \A k \in 1..Len(visited) :
       /\ visited[k].i \in PresentIndices(value)
       /\ visited[k].name = IndexKey(visited[k].i)
       /\ visited[k].value = Heap[value].props[IndexKey(visited[k].i)]
  /\ \A k, l \in 1..Len(visited) : k < l => visited[k].i < visited[l].i

\* Every present index has been visited.
VisitsAll(visited, value) == Len(visited) = Cardinality(PresentIndices(value))

\* The array returned by map has the length of the input, an entry for each
\* visited index holding what the callback returned for it, and no other.
ResultOfMap(x) ==
  /\ x.result.length = Heap[x.value].length
  /\ Len(x.returned) = Len(x.visited)
  /\ DOMAIN x.result.entries = {IndexKey(x.visited[k].i) : k \in 1..Len(x.visited)}
  /\ \A k \in 1..Len(x.visited) :
       x.result.entries[IndexKey(x.visited[k].i)] = x.returned[k]

IteratesArray(x) == x.op \in {"each", "map"} /\ x.value # Undefined /\ Heap[x.value].isArray

\* The callback of the activation at position n of frames is running (no
\* nested operation is active and no exception is propagating).
Running(n) == n = Len(frames) /\ ~err

\* C20: over an array, each and map invoke the callback once for every
\* present index, in ascending order, skipping absent indices; during the
\* invocation for index i getValue() is element i and getName() is i; map
\* returns an array of the input's length whose entry i is what the callback
\* returned for index i.
C20_EachMapVisits ==
  /\ \A n \in 1..Len(frames) :
       IteratesArray(frames[n]) =>
         /\ VisitsAscending(frames[n].visited, frames[n].value)
         /\ frames[n].visited # <<>>
         /\ frames[n].visited[Len(frames[n].visited)].i = frames[n].i
         /\ Running(n) =>
              /\ getName(stack) = IndexKey(frames[n].i)
              /\ getValue(stack) = Heap[frames[n].value].props[IndexKey(frames[n].i)]
  /\ (IteratesArray(lastExit) /\ lastExit.how = "return") =>
       /\ VisitsAscending(lastExit.visited, lastExit.value)
       /\ VisitsAll(lastExit.visited, lastExit.value)
       /\ lastExit.op = "map" => ResultOfMap(lastExit)

\* A map over the block's statements, whose index 1 is absent, has returned
\* after two invocations with different results.
C20_Witness ==
  /\ lastExit.op = "map"
  /\ lastExit.how = "return"
  /\ lastExit.value = "s1Body"
  /\ Len(lastExit.visited) = 2
  /\ lastExit.visited[2].i = 2
  /\ lastExit.returned = <<"docA", "docB">>
  /\ lastExit.result.length = 3

(***************************************************************************)
(* The read methods of the cursor: getValue, getName, getNode,             *)
(* getParentNode, isLast and needsParens, each as the stack it leaves and  *)
(* the result it returns                                                   *)
(***************************************************************************)
MaxReads == 2      \* calls of read methods made on one cursor

\* The number an index name stands for (typeof idx === "number"), or -1 for
\* a property name.
IndexOfName(name) ==
  CASE name = "0" -> 0 [] name = "1" -> 1 [] name = "2" -> 2 [] OTHER -> -1

\* An array with its elements.
ArrayOf(elements) == [ArrayValue EXCEPT !.fields = elements]

\* What a method returns: a boolean, a name, or the position in the stack of
\* the value returned (0 for null); or the failure of an assertion.
Answer(kind, bool, pos, name) ==
  [kind |-> kind, bool |-> bool, pos |-> pos, name |-> name]

NoAnswer == Answer("return", FALSE, 0, "")

\* A finished call: this.stack as the method leaves it, and its result.
Outcome(s, result) == [stack |-> s, result |-> result]

getValueCall(s) == Outcome(s, [NoAnswer EXCEPT !.pos = Len(s)])

getNameCall(s) == Outcome(s, [NoAnswer EXCEPT !.name = getName(s)])

getNodeCall(s, count) == Outcome(s, [NoAnswer EXCEPT !.pos = getNode(s, count)])

getParentNodeCall(s, count) ==
  Outcome(s, [NoAnswer EXCEPT !.pos = getParentNode(s, count)])

\* isLast(): with a parent node, the name must be an index and the value
\* below it an array (assert.ok raises otherwise).
isLast(s) ==
  IF getParentNode(s, 0) # 0
  THEN IF IndexOfName(s[Len(s) - 1]) < 0 \/ s[Len(s) - 2].isNode
       THEN [NoAnswer EXCEPT !.kind = "throw"]
       ELSE [NoAnswer EXCEPT
               !.bool = (IndexOfName(s[Len(s) - 1]) = Len(s[Len(s) - 2].fields) - 1)]
  ELSE NoAnswer

\* The mutant of isLastCall: the name and the value are popped to reach the
\* array.
isLastCallPops(s) ==
  Outcome(IF Len(s) > 2 THEN SubSeq(s, 1, Len(s) - 2) ELSE s, isLast(s))

isLastCall(s) == Outcome(s, isLast(s))

needsParensCall(s) == Outcome(s, [NoAnswer EXCEPT !.bool = needsParens(s)])

\* One call of a read method on the cursor, with the outcome o.
Called(method, count, o) ==
  /\ Len(reads) < MaxReads
  /\ stack' = o.stack
  /\ reads' = Append(reads, [method |-> method, count |-> count, before |-> stack,
                             after |-> o.stack, result |-> o.result])
  /\ UNCHANGED <<frames, err, lastExit, text, rawOpts, env, called, ret, cli>>

ReadValue == Called("getValue", 0, getValueCall(stack))

ReadName == Called("getName", 0, getNameCall(stack))

ReadNode(count) == Called("getNode", count, getNodeCall(stack, count))

ReadParentNode(count) ==
  Called("getParentNode", count, getParentNodeCall(stack, count))

ReadIsLast == Called("isLast", 0, isLastCall(stack))

ReadNeedsParens == Called("needsParens", 0, needsParensCall(stack))

\* The cursor positions the methods are called at: an identifier or a yield
\* expression in every placement that is not an array element, and elements
\* of arrays of two.
ReadStacks ==
  {s \in ParensStacks :
     /\ s[Len(s)].type \in {"Identifier", "YieldExpression"}
     /\ \A i \in 1..Len(s) : i % 2 = 1 => s[i].isNode}
  \cup {<<Value("Program"), "body",
          ArrayOf(<<Value("ExpressionStatement"), Value("EmptyStatement")>>),
          "0", Value("ExpressionStatement")>>,
        <<Value("Program"), "body",
          ArrayOf(<<Value("ExpressionStatement"), Value("EmptyStatement")>>),
          "1", Value("EmptyStatement")>>,
        <<Value("SequenceExpression"), "expressions",
          ArrayOf(<<Value("Identifier"), Value("YieldExpression")>>),
          "1", Value("YieldExpression")>>}

ReadsInit ==
  /\ stack \in ReadStacks
  /\ frames = <<>> /\ err = FALSE /\ lastExit = NoExit
  /\ DriverIdle

ReadsNext ==
  \/ ReadValue
  \/ ReadName
  \/ \E count \in 0..1 : ReadNode(count)
  \/ \E count \in 0..1 : ReadParentNode(count)
  \/ ReadIsLast
  \/ ReadNeedsParens

SpecReads == ReadsInit /\ [][ReadsNext]_vars

Contains(node, offset) == locStart(node) <= offset /\ offset <= locEnd(node)

\* The nodes below a node.
RECURSIVE Descendants(_)
Descendants(node) ==
  {node.children[i] : i \in 1..Len(node.children)}
  \cup UNION {Descendants(node.children[i]) : i \in 1..Len(node.children)}

\* The result r for an offset is a node that contains the offset and has no
\* statement-level node below it that contains the offset too.
DeepestAt(r, offset) ==
  /\ r.found
  /\ Contains(r.node, offset)
  /\ \A d \in Descendants(r.node) : ~(isSourceElement(d) /\ Contains(d, offset))

FoundAt(ast, offset) ==
  Contains(ast, offset) => DeepestAt(findNodeAtOffset(ast, offset, <<>>), offset)

\* C22: for every offset inside the root's span findNodeAtOffset returns a
\* result, whose node contains the offset and has no statement-level
\* descendant containing it; so calculateRange does not fail on an offset in
\* a top-level construct such as a class declaration.
C22_NodeAtOffsetFound ==
  (called = "calculateRange" /\ ret.contracted) =>
    /\ FoundAt(parse(text).ast, ret.startNonWhitespace)
    /\ FoundAt(parse(text).ast, ret.endNonWhitespace)
    /\ ~ret.threw

=============================================================================
